---- MODULE Spec2Model ----
(***************************************************************************)
(* A model of src/index.py: the Robinhood "24 Hour Market" watchlist       *)
(* export (login, watchlist, prices, chunked fundamentals, merge, upload   *)
(* to Google Sheets, logout).                                              *)
(*                                                                         *)
(* Python values are tagged records [t, v]: t is the Python type and v the *)
(* payload.  A str is a sequence of one-character strings, so that float() *)
(* and the f"{x:.2f}" formatting are computed on the characters.  A list   *)
(* is a sequence of values, a dict a sequence of <<key, value>> pairs in   *)
(* insertion order (Python dicts keep insertion order).                    *)
(***************************************************************************)
EXTENDS Integers, Sequences, FiniteSets, TLC

VARIABLES
    pc,                  \* position in export_24hr_market_to_csv_and_sheet
    chunk_size,          \* the value of the module constant CHUNK_SIZE
    calls,               \* external calls made so far, in order
    login_data,          \* what r.login returned
    watchlist_raw_data,  \* what r.get_watchlist_by_name returned
    instrument_map,      \* symbol -> {'Name': name}, in insertion order
    unique_tickers,      \* list(instrument_map.keys())
    price_response,      \* outcome of r.stocks.get_latest_price
    latest_prices_map,   \* result of fetch_latest_prices
    ticker_chunks,       \* the chunks of unique_tickers
    requests,            \* chunks passed to r.stocks.get_fundamentals, in order
    responses,           \* outcomes of those requests, in order
    all_fundamentals,    \* aggregated fundamentals records
    final_data,          \* the rows of the DataFrame
    uploaded,            \* the row sets passed to upload_to_google_sheets
    failed,              \* the external calls that raised, in order
    raised               \* TRUE when an exception escaped the function

vars == <<pc, chunk_size, calls, login_data, watchlist_raw_data, instrument_map,
          unique_tickers, price_response, latest_prices_map, ticker_chunks,
          requests, responses, all_fundamentals, final_data, uploaded, failed,
          raised>>

-----------------------------------------------------------------------------
(* Python values *)

None == [t |-> "None", v |-> <<>>]
Str(s) == [t |-> "str", v |-> s]
List(l) == [t |-> "list", v |-> l]
Dict(d) == [t |-> "dict", v |-> d]
\* an exception raised by an external call instead of a return value
Raise == [t |-> "raise", v |-> <<>>]

NA == Str(<<"N", "/", "A">>)
EMPTY == Str(<<>>)

\* bool(x): None, '', [] and {} are falsy
Truthy(x) == x.t /= "None" /\ x.v /= <<>>

RECURSIVE DictGet(_, _, _)
\* d.get(k, default) on a sequence of <<key, value>> pairs
DictGet(d, k, default) ==
    IF d = <<>> THEN default
    ELSE IF Head(d)[1] = k THEN Head(d)[2]
    ELSE DictGet(Tail(d), k, default)

DictHas(d, k) == \E n \in 1..Len(d) : d[n][1] = k

\* d[k] = x: an existing key keeps its position, a new key goes last
DictSet(d, k, x) ==
    IF DictHas(d, k)
    THEN [n \in 1..Len(d) |-> IF d[n][1] = k THEN <<k, x>> ELSE d[n]]
    ELSE Append(d, <<k, x>>)

DictKeys(d) == [n \in 1..Len(d) |-> d[n][1]]

-----------------------------------------------------------------------------
(* float(str) and f"{x:.2f}" on decimal strings *)

DigitChars == <<"0", "1", "2", "3", "4", "5", "6", "7", "8", "9">>
Digits == {DigitChars[n] : n \in 1..10}
DigitVal(c) == (CHOOSE n \in 1..10 : DigitChars[n] = c) - 1

AllDigits(s) == \A n \in 1..Len(s) : s[n] \in Digits

RECURSIVE StripZeros(_)
StripZeros(s) ==
    IF s /= <<>> /\ Head(s) = "0" THEN StripZeros(Tail(s)) ELSE s

\* position of the first "." in s, or 0
DotAt(s) ==
    IF \E n \in 1..Len(s) : s[n] = "."
    THEN CHOOSE n \in 1..Len(s) : s[n] = "." /\ \A m \in 1..(n - 1) : s[m] /= "."
    ELSE 0

\* float(s) for s over digits, ".", "-" and letters other than those of
\* "inf", "nan", "e" and "_": an optional sign, then digits with an optional
\* point ("1", "1.", ".5", "1.5"); anything else is a ValueError.  The value
\* is kept as sign, integer digits (no leading zeros) and fraction digits.
ParseFloat(s) ==
    LET neg == s /= <<>> /\ Head(s) = "-"
        body == IF neg THEN Tail(s) ELSE s
        dot == DotAt(body)
        ip == IF dot = 0 THEN body ELSE SubSeq(body, 1, dot - 1)
        fp == IF dot = 0 THEN <<>> ELSE SubSeq(body, dot + 1, Len(body))
    IN  IF AllDigits(ip) /\ AllDigits(fp) /\ Len(ip) + Len(fp) > 0
        THEN [ok |-> TRUE, neg |-> neg, int |-> StripZeros(ip), frac |-> fp]
        ELSE [ok |-> FALSE, neg |-> FALSE, int |-> <<>>, frac |-> <<>>]

\* cap >= 10^k: 10^k is the least number with k + 1 integer digits
GeqPow10(cap, k) == ~cap.neg /\ Len(cap.int) >= k + 1

RECURSIVE Zeros(_)
Zeros(n) == IF n <= 0 THEN <<>> ELSE <<"0">> \o Zeros(n - 1)

\* cap / 10^k: the point moves k digits to the left
DivPow10(cap, k) ==
    LET padded == Zeros(k - Len(cap.int)) \o cap.int
        cut == Len(padded) - k
    IN  [ok |-> TRUE, neg |-> cap.neg,
         int |-> SubSeq(padded, 1, cut),
         frac |-> SubSeq(padded, cut + 1, Len(padded)) \o cap.frac]

RECURSIVE Increment(_)
\* the digit string of n + 1
Increment(ds) ==
    IF ds = <<>> THEN <<"1">>
    ELSE LET front == SubSeq(ds, 1, Len(ds) - 1)
             last == ds[Len(ds)]
         IN  IF last = "9" THEN Increment(front) \o <<"0">>
             ELSE front \o <<DigitChars[DigitVal(last) + 2]>>

\* f"{x:.2f}": two fraction digits, rounded to nearest on the third (a tie
\* at the third digit is decided by the binary double and is kept out of
\* the inputs: no input digit is "5"); the sign is printed also for -0.00
Format2f(x) ==
    LET f3 == SubSeq(x.frac \o Zeros(3), 1, 3)
        kept == x.int \o SubSeq(f3, 1, 2)
        up == DigitVal(f3[3]) >= 5
        digs == IF up THEN Increment(kept) ELSE kept
        ip == StripZeros(SubSeq(digs, 1, Len(digs) - 2))
    IN  (IF x.neg THEN <<"-">> ELSE <<>>)
        \o (IF ip = <<>> THEN <<"0">> ELSE ip)
        \o <<".">> \o SubSeq(digs, Len(digs) - 1, Len(digs))

-----------------------------------------------------------------------------
(* format_market_cap, index.py 18-46 *)

\* float(x) succeeds: x is a str that parses (any other type raises
\* TypeError, a str that does not parse ValueError)
FloatOk(x) == x.t = "str" /\ ParseFloat(x.v).ok

\* cap > 10^k
GtPow10(cap, k) ==
    /\ ~cap.neg
    /\ \/ Len(cap.int) > k + 1
       \/ /\ Len(cap.int) = k + 1
          /\ cap.int \o cap.frac /= <<"1">> \o Zeros(k + Len(cap.frac))

\* UnitOf with > written for >= in lines 31, 35 and 39
UnitOfStrict(cap) ==
    IF GtPow10(cap, 12) THEN "T"
    ELSE IF GtPow10(cap, 9) THEN "B"
    ELSE IF GtPow10(cap, 6) THEN "M"
    ELSE ""

\* the unit chosen by the descending threshold chain of lines 31-44
UnitOf(cap) ==
    IF GeqPow10(cap, 12) THEN "T"
    ELSE IF GeqPow10(cap, 9) THEN "B"
    ELSE IF GeqPow10(cap, 6) THEN "M"
    ELSE ""

UnitExp(u) == CASE u = "T" -> 12 [] u = "B" -> 9 [] u = "M" -> 6 [] OTHER -> 0
UnitStr(u) == IF u = "" THEN EMPTY ELSE Str(<<u>>)

\* returns the pair <<value, unit>>
format_market_cap(market_cap_str) ==
    IF ~Truthy(market_cap_str) THEN <<NA, EMPTY>>
    ELSE IF ~FloatOk(market_cap_str) THEN <<NA, EMPTY>>
    ELSE LET cap == ParseFloat(market_cap_str.v)
             u == UnitOf(cap)
         IN  <<Str(Format2f(DivPow10(cap, UnitExp(u)))), UnitStr(u)>>

-----------------------------------------------------------------------------
(* fetch_latest_prices, index.py 49-74 *)

\* f"${price:.2f}" of a price string that float() accepts
PriceStr(price_str) == Str(<<"$">> \o Format2f(ParseFloat(price_str.v)))

RECURSIVE ZipPrices(_, _, _)
\* the loop of lines 62-67 over zip(tickers, latest_prices_list)
ZipPrices(prices, tickers, price_list) ==
    IF tickers = <<>> \/ price_list = <<>> THEN prices
    ELSE ZipPrices(DictSet(prices, Head(tickers),
                           IF FloatOk(Head(price_list))
                           THEN PriceStr(Head(price_list)) ELSE NA),
                   Tail(tickers), Tail(price_list))

RECURSIVE AllNA(_, _)
\* {ticker: 'N/A' for ticker in tickers}, line 72
AllNA(prices, tickers) ==
    IF tickers = <<>> THEN prices
    ELSE AllNA(DictSet(prices, Head(tickers), NA), Tail(tickers))

\* resp is what r.stocks.get_latest_price(tickers) returned, or Raise
fetch_latest_prices(tickers, resp) ==
    IF tickers = <<>> THEN <<>>
    ELSE IF resp = Raise THEN AllNA(<<>>, tickers)
    ELSE IF Truthy(resp) /\ resp.t = "list" THEN ZipPrices(<<>>, tickers, resp.v)
    ELSE <<>>

-----------------------------------------------------------------------------
(* export_24hr_market_to_csv_and_sheet, index.py 116-232: the pure steps *)

\* line 131, negated: login_data is truthy and holds 'access_token'
LoginOk(resp) ==
    Truthy(resp) /\ resp.t = "dict" /\ DictHas(resp.v, "access_token")

\* lines 141-144: a {'results': [...]} envelope, a plain list, or nothing
ListOfInstruments(raw) ==
    IF raw.t = "dict" /\ DictHas(raw.v, "results")
    THEN DictGet(raw.v, "results", List(<<>>))
    ELSE IF raw.t = "list" THEN raw ELSE List(<<>>)

\* line 152
HasSymbol(i) == i.t = "dict" /\ Truthy(DictGet(i.v, "symbol", None))

\* AddInstrument keeping the first record of a symbol instead of the last
AddInstrumentFirstWins(map, i) ==
    IF DictHas(map, DictGet(i.v, "symbol", None)) THEN map
    ELSE Append(map, <<DictGet(i.v, "symbol", None),
                       Dict(<<<<"Name", DictGet(i.v, "name", None)>>>>)>>)

\* lines 153-155 for one record i that passed line 152
AddInstrument(map, i) ==
    DictSet(map, DictGet(i.v, "symbol", None),
            Dict(<<<<"Name", DictGet(i.v, "name", None)>>>>))

RECURSIVE ExtractTickers(_, _)
\* the loop of lines 151-155
ExtractTickers(map, instruments) ==
    IF instruments = <<>> THEN map
    ELSE ExtractTickers(IF HasSymbol(Head(instruments))
                        THEN AddInstrument(map, Head(instruments)) ELSE map,
                        Tail(instruments))

Min(a, b) == IF a < b THEN a ELSE b

\* Chunks with range(0, len(tickers) - size + 1, size): the last, shorter
\* chunk is lost
ChunksDropRemainder(tickers, size) ==
    [k \in 1..(Len(tickers) \div size) |->
        SubSeq(tickers, (k - 1) * size + 1, k * size)]

\* line 171: [tickers[i:i + size] for i in range(0, len(tickers), size)]
Chunks(tickers, size) ==
    [k \in 1..((Len(tickers) + size - 1) \div size) |->
        SubSeq(tickers, (k - 1) * size + 1, Min(k * size, Len(tickers)))]

\* lines 179-182: what one response adds to all_fundamentals
NormalizeChunk(resp) ==
    IF resp.t = "list" THEN resp.v
    ELSE IF resp.t = "dict" /\ Truthy(DictGet(resp.v, "results", None))
    THEN DictGet(resp.v, "results", List(<<>>)).v
    ELSE <<>>

\* IsRecord without the truthiness test: an empty dict passes
IsRecordAnyDict(fund) == fund.t = "dict"

\* line 189
IsRecord(fund) == Truthy(fund) /\ fund.t = "dict"

\* line 193
NameOf(fund, map) ==
    DictGet(DictGet(map, DictGet(fund.v, "symbol", NA), Dict(<<>>)).v,
            "Name", DictGet(fund.v, "name", NA))

\* lines 190-207 for one record
MergeRow(fund, map, prices) ==
    LET ticker == DictGet(fund.v, "symbol", NA)
        cap == format_market_cap(DictGet(fund.v, "market_cap", None))
    IN  [Name |-> NameOf(fund, map),
         Symbol |-> ticker,
         Price |-> DictGet(prices, ticker, NA),
         MarketcapValue |-> cap[1],
         MarketcapUnit |-> cap[2]]

RECURSIVE MergeRows(_, _, _)
\* the loop of lines 188-207
MergeRows(funds, map, prices) ==
    IF funds = <<>> THEN <<>>
    ELSE (IF IsRecord(Head(funds))
          THEN <<MergeRow(Head(funds), map, prices)>> ELSE <<>>)
         \o MergeRows(Tail(funds), map, prices)

-----------------------------------------------------------------------------
(* The run: one action per external call, with the code up to the next call *)

\* failed after a call named c whose outcome was resp
Outcome(c, resp) == IF resp = Raise THEN Append(failed, c) ELSE failed

\* the state at entry, with CHUNK_SIZE one of sizes
Start(sizes) ==
    /\ chunk_size \in sizes
    /\ pc = "login"
    /\ calls = <<>>
    /\ login_data = None
    /\ watchlist_raw_data = None
    /\ instrument_map = <<>>
    /\ unique_tickers = <<>>
    /\ price_response = None
    /\ latest_prices_map = <<>>
    /\ ticker_chunks = <<>>
    /\ requests = <<>>
    /\ responses = <<>>
    /\ all_fundamentals = <<>>
    /\ final_data = <<>>
    /\ uploaded = <<>>
    /\ failed = <<>>
    /\ raised = FALSE

\* lines 129-133; an exception goes to the handler of line 224, the
\* return of line 133 to the finally block
Login(R) ==
    /\ pc = "login"
    /\ \E resp \in R :
        /\ calls' = Append(calls, "login")
        /\ login_data' = resp
        /\ failed' = Outcome("login", resp)
        /\ pc' = IF resp = Raise THEN "except"
                 ELSE IF LoginOk(resp) THEN "watchlist" ELSE "finally"
    /\ UNCHANGED <<chunk_size, watchlist_raw_data, instrument_map, unique_tickers,
                   price_response, latest_prices_map, ticker_chunks, requests,
                   responses, all_fundamentals, final_data, uploaded, raised>>

\* lines 138-163
GetWatchlist(R) ==
    /\ pc = "watchlist"
    /\ \E resp \in R :
        LET list_of_instruments == ListOfInstruments(resp)
            map == IF resp /= Raise /\ Truthy(list_of_instruments)
                   THEN ExtractTickers(<<>>, list_of_instruments.v) ELSE <<>>
        IN  /\ calls' = Append(calls, "get_watchlist_by_name")
            /\ watchlist_raw_data' = resp
            /\ failed' = Outcome("get_watchlist_by_name", resp)
            /\ instrument_map' = map
            /\ unique_tickers' = DictKeys(map)
            /\ pc' = IF resp = Raise THEN "except"
                     ELSE IF map = <<>> THEN "finally" ELSE "prices"
    /\ UNCHANGED <<chunk_size, login_data, price_response, latest_prices_map,
                   ticker_chunks, requests, responses, all_fundamentals,
                   final_data, uploaded, raised>>

\* FetchPrices without the try of lines 57-72: the exception of the price
\* call reaches the handler of line 224
FetchPricesUnguarded(R) ==
    /\ pc = "prices"
    /\ \E resp \in R :
        /\ calls' = Append(calls, "get_latest_price")
        /\ price_response' = resp
        /\ failed' = Outcome("get_latest_price", resp)
        /\ latest_prices_map' =
               IF resp = Raise THEN <<>> ELSE fetch_latest_prices(unique_tickers, resp)
        /\ pc' = IF resp = Raise THEN "except" ELSE "request"
    /\ ticker_chunks' = Chunks(unique_tickers, chunk_size)
    /\ UNCHANGED <<chunk_size, login_data, watchlist_raw_data, instrument_map,
                   unique_tickers, requests, responses, all_fundamentals,
                   final_data, uploaded, raised>>

\* lines 166-171: fetch_latest_prices never raises, then the chunks are cut
FetchPrices(R) ==
    /\ pc = "prices"
    /\ \E resp \in R :
        /\ calls' = Append(calls, "get_latest_price")
        /\ price_response' = resp
        /\ failed' = Outcome("get_latest_price", resp)
        /\ latest_prices_map' = fetch_latest_prices(unique_tickers, resp)
    /\ ticker_chunks' = Chunks(unique_tickers, chunk_size)
    /\ pc' = "request"
    /\ UNCHANGED <<chunk_size, login_data, watchlist_raw_data, instrument_map,
                   unique_tickers, requests, responses, all_fundamentals,
                   final_data, uploaded, raised>>

\* lines 173-177: the next chunk is sent to r.stocks.get_fundamentals
RequestChunk ==
    /\ pc = "request"
    /\ requests' = Append(requests, ticker_chunks[Len(requests) + 1])
    /\ calls' = Append(calls, "get_fundamentals")
    /\ pc' = "response"
    /\ UNCHANGED <<chunk_size, login_data, watchlist_raw_data, instrument_map,
                   unique_tickers, price_response, latest_prices_map,
                   ticker_chunks, responses, all_fundamentals, final_data,
                   uploaded, failed, raised>>

\* lines 177-182: its answer; an exception leaves the loop for line 224
ReceiveChunk(R) ==
    /\ pc = "response"
    /\ \E resp \in R :
        /\ responses' = Append(responses, resp)
        /\ failed' = Outcome("get_fundamentals", resp)
        /\ all_fundamentals' = IF resp = Raise THEN all_fundamentals
                               ELSE all_fundamentals \o NormalizeChunk(resp)
        /\ pc' = IF resp = Raise THEN "except"
                 ELSE IF Len(requests) < Len(ticker_chunks) THEN "request"
                 ELSE "merge"
    /\ UNCHANGED <<chunk_size, calls, login_data, watchlist_raw_data,
                   instrument_map, unique_tickers, price_response,
                   latest_prices_map, ticker_chunks, requests, final_data,
                   uploaded, raised>>

\* Merge without the df.empty test of line 212
MergeAlwaysUploads ==
    /\ pc = "merge"
    /\ final_data' = MergeRows(all_fundamentals, instrument_map, latest_prices_map)
    /\ pc' = "upload"
    /\ UNCHANGED <<chunk_size, calls, login_data, watchlist_raw_data,
                   instrument_map, unique_tickers, price_response,
                   latest_prices_map, ticker_chunks, requests, responses,
                   all_fundamentals, uploaded, failed, raised>>

\* lines 186-222: the rows, then upload unless the DataFrame is empty
Merge ==
    /\ pc = "merge"
    /\ final_data' = MergeRows(all_fundamentals, instrument_map, latest_prices_map)
    /\ pc' = IF final_data' /= <<>> THEN "upload" ELSE "finally"
    /\ UNCHANGED <<chunk_size, calls, login_data, watchlist_raw_data,
                   instrument_map, unique_tickers, price_response,
                   latest_prices_map, ticker_chunks, requests, responses,
                   all_fundamentals, uploaded, failed, raised>>

\* line 220 and lines 77-113: upload_to_google_sheets catches every
\* exception of the Sheets calls itself, so both outcomes return normally
Upload ==
    /\ pc = "upload"
    /\ \E outcome \in {None, Raise} :
        /\ calls' = Append(calls, "upload_to_google_sheets")
        /\ uploaded' = Append(uploaded, final_data)
        /\ failed' = Outcome("gspread", outcome)
    /\ pc' = "finally"
    /\ UNCHANGED <<chunk_size, login_data, watchlist_raw_data, instrument_map,
                   unique_tickers, price_response, latest_prices_map,
                   ticker_chunks, requests, responses, all_fundamentals,
                   final_data, raised>>

\* HandleException with the logout written after the try statement's body
\* instead of in a finally block: the handled run ends without it
HandleExceptionSkipsLogout ==
    /\ pc = "except"
    /\ pc' = "done"
    /\ UNCHANGED <<chunk_size, calls, login_data, watchlist_raw_data,
                   instrument_map, unique_tickers, price_response,
                   latest_prices_map, ticker_chunks, requests, responses,
                   all_fundamentals, final_data, uploaded, failed, raised>>

\* lines 224-225
HandleException ==
    /\ pc = "except"
    /\ pc' = "finally"
    /\ UNCHANGED <<chunk_size, calls, login_data, watchlist_raw_data,
                   instrument_map, unique_tickers, price_response,
                   latest_prices_map, ticker_chunks, requests, responses,
                   all_fundamentals, final_data, uploaded, failed, raised>>

\* lines 226-232: r.logout(), whose exception is passed over
Logout ==
    /\ pc = "finally"
    /\ \E outcome \in {None, Raise} :
        /\ calls' = Append(calls, "logout")
        /\ failed' = Outcome("logout", outcome)
        /\ raised' = FALSE
    /\ pc' = "done"
    /\ UNCHANGED <<chunk_size, login_data, watchlist_raw_data, instrument_map,
                   unique_tickers, price_response, latest_prices_map,
                   ticker_chunks, requests, responses, all_fundamentals,
                   final_data, uploaded>>

\* one step of the run, the external answers drawn from L (login), W
\* (watchlist), P (prices) and F (fundamentals)
Run(L, W, P, F) ==
    \/ Login(L)
    \/ GetWatchlist(W)
    \/ FetchPrices(P)
    \/ RequestChunk
    \/ ReceiveChunk(F)
    \/ Merge
    \/ Upload
    \/ HandleException
    \/ Logout

-----------------------------------------------------------------------------
(* Bounds and the answers of the external services *)

CHUNK_SIZE == 100

MaxChunkSize == 2    \* small chunk sizes tried beside CHUNK_SIZE
MaxTickers == 5      \* watchlist symbols in the chunking runs
MaxWatch == 3        \* watchlist records in the watchlist runs
MaxPrices == 3       \* entries of a price answer in the price runs
MaxRecords == 2      \* records of a fundamentals answer in the merge runs
MaxCapDigits == 13   \* digits after the first of a generated market cap
MaxCapLen == 2       \* length of the short market cap strings

SeqsUpTo(S, n) == UNION {[1..k -> S] : k \in 0..n}

SymChars == <<"A", "B", "C", "D", "E", "F", "G", "H">>
Sym(n) == Str(<<SymChars[n]>>)
Name(n) == Str(<<"C", "o", SymChars[n]>>)
AltName == Str(<<"A", "l", "t">>)

Instrument(n) == Dict(<<<<"symbol", Sym(n)>>, <<"name", Name(n)>>>>)
Unnamed(n) == Dict(<<<<"symbol", Sym(n)>>>>)
\* the first n instruments, every one named except the last
FirstInstruments(n) ==
    [k \in 1..n |-> IF k = n /\ n > 1 THEN Unnamed(k) ELSE Instrument(k)]
Envelope(l) == Dict(<<<<"results", List(l)>>>>)

Token == Dict(<<<<"access_token", Str(<<"t">>)>>>>)
Denied == Dict(<<<<"detail", Str(<<"n", "o">>)>>>>)

GoodPrice == Str(<<"1", ".", "9">>)
BadPrice == Str(<<"a", "b", "c">>)

Million == Str(<<"1">> \o Zeros(6))
Fund(n) == Dict(<<<<"symbol", Sym(n)>>, <<"market_cap", Million>>>>)
NamedFund(n) ==
    Dict(<<<<"symbol", Sym(n)>>, <<"name", AltName>>, <<"market_cap", None>>>>)

\* the whole run
RunLogin == {Raise, None, Dict(<<>>), Denied, Token}
RunWatch ==
    {Raise, None, List(<<>>), Envelope(<<>>), List(<<None>>),
     List(FirstInstruments(1)), Envelope(FirstInstruments(2)),
     List(FirstInstruments(3))}
RunPrices == {Raise, None, List(<<GoodPrice>>), List(<<GoodPrice, BadPrice, None>>)}
RunFunds ==
    {Raise, None, List(<<>>), List(<<Fund(1)>>),
     Envelope(<<NamedFund(2), None, Fund(3)>>)}

Init == Start(1..MaxChunkSize \cup {CHUNK_SIZE})
Next == Run(RunLogin, RunWatch, RunPrices, RunFunds)
Spec == Init /\ [][Next]_vars

-----------------------------------------------------------------------------
(* Properties of the whole run *)

InSeq(x, s) == \E n \in 1..Len(s) : s[n] = x
Count(s, x) == Cardinality({n \in 1..Len(s) : s[n] = x})

RECURSIVE Flatten(_)
Flatten(ss) == IF ss = <<>> THEN <<>> ELSE Head(ss) \o Flatten(Tail(ss))

\* the records of the watchlist answer, list or envelope
WatchItems ==
    IF watchlist_raw_data.t = "list" THEN watchlist_raw_data.v
    ELSE IF watchlist_raw_data.t = "dict"
            /\ \E n \in 1..Len(watchlist_raw_data.v) :
                  /\ watchlist_raw_data.v[n][1] = "results"
                  /\ watchlist_raw_data.v[n][2].t = "list"
    THEN (CHOOSE pair \in {watchlist_raw_data.v[n] : n \in 1..Len(watchlist_raw_data.v)} :
             pair[1] = "results")[2].v
    ELSE <<>>

\* record x is a dict whose key k holds a value
Holds(x, k) == x.t = "dict" /\ \E n \in 1..Len(x.v) : x.v[n][1] = k
ValueAt(x, k) == (CHOOSE pair \in {x.v[n] : n \in 1..Len(x.v)} : pair[1] = k)[2]
\* the non-empty symbol string record x carries, if it carries one
CarriesSymbol(x) ==
    /\ Holds(x, "symbol")
    /\ ValueAt(x, "symbol").t = "str"
    /\ Len(ValueAt(x, "symbol").v) > 0

\* a fundamentals record that gives a row: a dict with at least one key
GivesRow(x) == x.t = "dict" /\ Len(x.v) > 0

\* C2: logout is attempted exactly once on every path, as the last external
\* call: nothing is called after it, a finished run has it as its last call
\* and has raised nothing (also when the logout itself failed), and no run
\* stops before it is finished.
LogoutOnEveryPath ==
    /\ \A k \in 1..Len(calls) :
          calls[k] = "logout" => k = Len(calls) /\ pc = "done"
    /\ pc = "done" => calls /= <<>> /\ calls[Len(calls)] = "logout" /\ ~raised

\* a run that a fundamentals exception ended, and whose logout failed too
LogoutAfterFailureReached ==
    pc = "done" /\ failed = <<"get_fundamentals", "logout">>

\* C3: upload is called at most once, only with the rows of the run, only
\* when there are rows, and only in a run that logged in and found a
\* watchlist record with a symbol.
UploadOnlyValidRun ==
    /\ Len(uploaded) <= 1
    /\ Count(calls, "upload_to_google_sheets") = Len(uploaded)
    /\ uploaded /= <<>> =>
          /\ Holds(login_data, "access_token")
          /\ \E n \in 1..Len(WatchItems) : CarriesSymbol(WatchItems[n])
          /\ uploaded[1] /= <<>>
          /\ uploaded[1] = final_data

\* a finished run that uploaded
UploadReached == pc = "done" /\ Len(uploaded) = 1

\* C4: a fundamentals request that raises does not stop the others: every
\* chunk is still requested and the records of the answered chunks are
\* uploaded as rows.
ChunkFailureIsolated ==
    (pc = "done" /\ InSeq("get_fundamentals", failed)) =>
        /\ Len(requests) = Len(ticker_chunks)
        /\ \A k \in 1..Len(responses) :
              \A n \in 1..Len(NormalizeChunk(responses[k])) :
                 GivesRow(NormalizeChunk(responses[k])[n]) =>
                    /\ uploaded /= <<>>
                    /\ \E m \in 1..Len(uploaded[1]) :
                          uploaded[1][m].Symbol
                             = DictGet(NormalizeChunk(responses[k])[n].v, "symbol", NA)

\* the price call raised, or answered with something that is no list of prices
PriceFailed ==
    /\ InSeq("get_latest_price", calls)
    /\ \/ InSeq("get_latest_price", failed)
       \/ price_response.t /= "list"
       \/ price_response.v = <<>>

\* C5: a failed price call does not end the run: the run goes on to the
\* fundamentals requests, and when these are all answered there is one row
\* for every record, every row has Price "N/A", and the rows are uploaded
\* when there are any.
PriceFailureIsolated ==
    PriceFailed =>
        /\ pc = "request" \/ requests /= <<>>
        /\ (pc \in {"upload", "finally", "done"} /\ ~InSeq("get_fundamentals", failed)) =>
              /\ requests = ticker_chunks
              /\ Len(final_data) = Count([n \in 1..Len(all_fundamentals) |->
                                            GivesRow(all_fundamentals[n])], TRUE)
              /\ \A m \in 1..Len(final_data) : final_data[m].Price = NA
              /\ (pc = "done" /\ final_data /= <<>>) => Len(uploaded) = 1

\* the price call raised and the run still uploaded rows
PriceFailureReached ==
    /\ pc = "done"
    /\ InSeq("get_latest_price", failed)
    /\ Len(uploaded) = 1
    /\ Len(uploaded[1]) > 1

-----------------------------------------------------------------------------
(* fetch_latest_prices under every kind of price answer *)

PriceValues == {GoodPrice, BadPrice, None}
PriceAnswers ==
    {Raise, None, GoodPrice, Dict(<<>>), Envelope(<<GoodPrice>>)}
        \cup {List(l) : l \in SeqsUpTo(PriceValues, MaxPrices)}
PriceWatch == {List(FirstInstruments(n)) : n \in 1..MaxPrices}
FewFunds == {Raise, List(<<Fund(1)>>)}

PriceInit == Start({CHUNK_SIZE})
PriceNext == Run({Token}, PriceWatch, PriceAnswers, FewFunds)
PriceSpec == PriceInit /\ [][PriceNext]_vars

KeySet(d) == {d[n][1] : n \in 1..Len(d)}

\* C1: the mapping fetch_latest_prices returns has exactly the input
\* symbols as keys, whatever the price call did.
PricesTotal ==
    InSeq("get_latest_price", calls) =>
        KeySet(latest_prices_map) = {unique_tickers[n] : n \in 1..Len(unique_tickers)}

-----------------------------------------------------------------------------
(* Watchlist loading under every shape of watchlist answer *)

WatchRecords ==
    {Instrument(1), Unnamed(1), Instrument(2),
     Dict(<<<<"symbol", Sym(1)>>, <<"name", AltName>>>>),
     Dict(<<<<"symbol", EMPTY>>, <<"name", AltName>>>>),
     Dict(<<<<"symbol", None>>>>),
     Dict(<<<<"name", AltName>>>>),
     None}
WatchAnswers ==
    {Raise, None, Dict(<<>>), Dict(<<<<"results", None>>>>)}
        \cup {List(l) : l \in SeqsUpTo(WatchRecords, MaxWatch)}
        \cup {Envelope(l) : l \in SeqsUpTo(WatchRecords, MaxWatch)}

WatchInit == Start({CHUNK_SIZE})
WatchNext == Run({Token}, WatchAnswers, {Raise}, FewFunds)
WatchSpec == WatchInit /\ [][WatchNext]_vars

\* the largest index of a watchlist record carrying symbol s
LastCarrying(s) ==
    CHOOSE n \in 1..Len(WatchItems) :
        /\ CarriesSymbol(WatchItems[n]) /\ ValueAt(WatchItems[n], "symbol") = s
        /\ \A m \in (n + 1)..Len(WatchItems) :
              ~(CarriesSymbol(WatchItems[m]) /\ ValueAt(WatchItems[m], "symbol") = s)

\* the entry of instrument_map for symbol s
EntryOf(s) ==
    (CHOOSE pair \in {instrument_map[n] : n \in 1..Len(instrument_map)} : pair[1] = s)[2]

\* C10: the symbol list holds each non-empty symbol of the watchlist
\* records exactly once and nothing else, and the name looked up for a
\* symbol is the name of the last record carrying it.
WatchlistDeduplicated ==
    InSeq("get_watchlist_by_name", calls) =>
        LET carried == {ValueAt(WatchItems[n], "symbol") :
                           n \in {m \in 1..Len(WatchItems) : CarriesSymbol(WatchItems[m])}}
        IN  /\ {unique_tickers[n] : n \in 1..Len(unique_tickers)} = carried
            /\ Len(unique_tickers) = Cardinality(carried)
            /\ unique_tickers = DictKeys(instrument_map)
            /\ \A s \in carried :
                  EntryOf(s) =
                     Dict(<<<<"Name",
                             IF Holds(WatchItems[LastCarrying(s)], "name")
                             THEN ValueAt(WatchItems[LastCarrying(s)], "name")
                             ELSE None>>>>)

\* symbol A three times with a dropped record between: the last name wins
DuplicateSymbolReached ==
    /\ WatchItems = <<Instrument(1), Dict(<<<<"symbol", EMPTY>>, <<"name", AltName>>>>),
                      Dict(<<<<"symbol", Sym(1)>>, <<"name", AltName>>>>)>>
    /\ unique_tickers = <<Sym(1)>>
    /\ instrument_map = <<<<Sym(1), Dict(<<<<"Name", AltName>>>>)>>>>

-----------------------------------------------------------------------------
(* Chunking under small chunk sizes *)

ChunkWatch ==
    {List(FirstInstruments(n)) : n \in 1..MaxTickers}
        \cup {Envelope(<<Instrument(3), Instrument(1), Instrument(2)>>)}
ChunkFunds == {Raise, None, List(<<Fund(1)>>)}

ChunkInit == Start(1..MaxChunkSize \cup {CHUNK_SIZE})
ChunkNext == Run({Token}, ChunkWatch, {None}, ChunkFunds)
ChunkSpec == ChunkInit /\ [][ChunkNext]_vars

\* C7: the chunks are consecutive pieces of the symbol list, none empty,
\* all of size chunk_size except possibly a shorter last one; the requests
\* are the chunks in order, one request per chunk, each sent only when the
\* one before it has been answered; when all are answered every chunk has
\* been requested.
ChunksSequential ==
    /\ ~InSeq("get_latest_price", calls) => requests = <<>>
    /\ InSeq("get_latest_price", calls) =>
          /\ Flatten(ticker_chunks) = unique_tickers
          /\ \A k \in 1..Len(ticker_chunks) :
                /\ Len(ticker_chunks[k]) >= 1
                /\ Len(ticker_chunks[k]) <= chunk_size
                /\ k < Len(ticker_chunks) => Len(ticker_chunks[k]) = chunk_size
          /\ Len(requests) <= Len(ticker_chunks)
          /\ \A k \in 1..Len(requests) : requests[k] = ticker_chunks[k]
          /\ Count(calls, "get_fundamentals") = Len(requests)
          /\ Len(requests) = Len(responses) + (IF pc = "response" THEN 1 ELSE 0)
          /\ (pc \in {"merge", "upload", "finally", "done"}
                 /\ ~InSeq("get_fundamentals", failed)) => requests = ticker_chunks

\* five symbols in chunks of two: requests of sizes 2, 2, 1, all answered
ThreeChunksReached ==
    /\ pc = "merge"
    /\ Len(unique_tickers) = 5
    /\ chunk_size = 2
    /\ [k \in 1..Len(requests) |-> Len(requests[k])] = <<2, 2, 1>>

-----------------------------------------------------------------------------
(* The merge under every kind of fundamentals record *)

FundRecords == {Fund(1), NamedFund(2), Fund(4), None, Dict(<<>>)}
MergeFunds ==
    {Raise, None, Envelope(<<NamedFund(1), None>>), Envelope(<<>>),
     List(<<BadPrice, NamedFund(4), Dict(<<<<"name", AltName>>>>)>>)}
        \cup {List(l) : l \in SeqsUpTo(FundRecords, MaxRecords)}
MergeWatch == {List(FirstInstruments(2)), List(<<Instrument(1), Unnamed(2), Instrument(3)>>)}

MergeInit == Start({2, CHUNK_SIZE})
MergeNext == Run({Token}, MergeWatch, {Raise, List(<<GoodPrice>>)}, MergeFunds)
MergeSpec == MergeInit /\ [][MergeNext]_vars

\* the records of one fundamentals answer, list or envelope
Records(resp) ==
    IF resp.t = "list" THEN resp.v
    ELSE IF Holds(resp, "results") /\ ValueAt(resp, "results").t = "list"
    THEN ValueAt(resp, "results").v
    ELSE <<>>

\* the records that give a row, in answer order and then in record order
RowRecords ==
    SelectSeq(Flatten([k \in 1..Len(responses) |-> Records(responses[k])]), GivesRow)

SymbolOf(rec) == IF Holds(rec, "symbol") THEN ValueAt(rec, "symbol") ELSE NA

\* the merge has run: every chunk was answered and none raised
Merged ==
    /\ pc \in {"upload", "finally", "done"}
    /\ ticker_chunks /= <<>>
    /\ Len(responses) = Len(ticker_chunks)
    /\ ~InSeq("get_fundamentals", failed)

\* C6: the rows are the non-empty dict records of the answers, one row per
\* record, in chunk order and then in the order of the answer; a watchlist
\* symbol without a record has no row.
MergeIsFanIn ==
    Merged =>
        /\ Len(final_data) = Len(RowRecords)
        /\ \A k \in 1..Len(final_data) : final_data[k].Symbol = SymbolOf(RowRecords[k])
        /\ \A n \in 1..Len(unique_tickers) :
              (\A k \in 1..Len(RowRecords) : SymbolOf(RowRecords[k]) /= unique_tickers[n])
                 => \A k \in 1..Len(final_data) : final_data[k].Symbol /= unique_tickers[n]

\* two answers with skipped records between the rows, and a watchlist
\* symbol left without a row
FanInReached ==
    /\ pc = "done"
    /\ responses = <<List(<<None, NamedFund(2)>>), List(<<Dict(<<>>), Fund(4)>>)>>
    /\ Len(unique_tickers) = 3
    /\ [k \in 1..Len(final_data) |-> final_data[k].Symbol] = <<Sym(2), Sym(4)>>

\* C9: the Name of a row is the watchlist name of the record's symbol when
\* the watchlist gives one, else the record's own name, else "N/A".
NameFallsBack ==
    Merged =>
        \A k \in 1..Len(final_data) :
            LET rec == RowRecords[k]
                listed == \E n \in 1..Len(instrument_map) :
                             /\ instrument_map[n][1] = SymbolOf(rec)
                             /\ ValueAt(instrument_map[n][2], "Name") /= None
            IN  final_data[k].Name =
                   IF listed THEN ValueAt(EntryOf(SymbolOf(rec)), "Name")
                   ELSE IF Holds(rec, "name") THEN ValueAt(rec, "name")
                   ELSE NA

-----------------------------------------------------------------------------
(* format_market_cap under market caps around the thresholds *)

RECURSIVE Repeat(_, _)
Repeat(c, n) == IF n <= 0 THEN <<>> ELSE <<c>> \o Repeat(c, n - 1)

\* a leading 1 or 9, then n zeros or n nines, with or without cents
LongCaps ==
    {h \o Repeat(c, n) \o tail :
        h \in {<<"1">>, <<"9">>, <<"-", "1">>}, c \in {"0", "9"}, n \in 0..MaxCapDigits,
        tail \in {<<>>, <<".", "9", "9">>, <<".", "0", "0">>}}
ShortCaps == SeqsUpTo({"1", "0", ".", "-", "a"}, MaxCapLen)
CapValues ==
    {None, Dict(<<<<"raw", None>>>>)} \cup {Str(c) : c \in LongCaps \cup ShortCaps}
CapFund(c) == Dict(<<<<"symbol", Sym(1)>>, <<"market_cap", c>>>>)
CapFunds == {Raise, List(<<Unnamed(1)>>)} \cup {List(<<CapFund(c)>>) : c \in CapValues}

FormatInit == Start({CHUNK_SIZE})
FormatNext == Run({Token}, {List(<<Instrument(1)>>)}, {None}, CapFunds)
FormatSpec == FormatInit /\ [][FormatNext]_vars

\* s is a decimal numeral: an optional "-", digits with at most one "."
IsNumeral(x) ==
    /\ x.t = "str"
    /\ LET body == IF x.v /= <<>> /\ x.v[1] = "-" THEN Tail(x.v) ELSE x.v
       IN  /\ Cardinality({n \in 1..Len(body) : body[n] = "."}) <= 1
           /\ \A n \in 1..Len(body) : body[n] = "." \/ body[n] \in Digits
           /\ \E n \in 1..Len(body) : body[n] \in Digits

\* digit strings without leading zeros: a >= b as numbers
DigitsGeq(a, b) ==
    \/ Len(a) > Len(b)
    \/ /\ Len(a) = Len(b)
       /\ \/ a = b
          \/ \E n \in 1..Len(a) :
                /\ DigitVal(a[n]) > DigitVal(b[n])
                /\ \A m \in 1..(n - 1) : a[m] = b[m]

\* the numeral x is at least 10^k
AtLeastPow10(x, k) ==
    /\ x.v[1] /= "-"
    /\ LET whole == SelectSeq(x.v, LAMBDA c : TRUE)
           dot == IF \E n \in 1..Len(whole) : whole[n] = "."
                  THEN CHOOSE n \in 1..Len(whole) : whole[n] = "."
                  ELSE Len(whole) + 1
       IN  DigitsGeq(StripZeros(SubSeq(whole, 1, dot - 1)), <<"1">> \o Repeat("0", k))

\* C8: the row of a record whose market cap is None, empty or no numeral
\* has value "N/A" and unit ""; the row of a numeral cap has unit T iff
\* cap >= 10^12, B iff 10^9 <= cap < 10^12, M iff 10^6 <= cap < 10^9 and ""
\* otherwise.
UnitByThreshold ==
    (Merged /\ Len(final_data) = 1 /\ Len(RowRecords) = 1) =>
        LET raw == IF Holds(RowRecords[1], "market_cap")
                   THEN ValueAt(RowRecords[1], "market_cap") ELSE None
            row == final_data[1]
        IN  IF ~IsNumeral(raw)
            THEN row.MarketcapValue = NA /\ row.MarketcapUnit = EMPTY
            ELSE /\ row.MarketcapValue /= NA
                 /\ row.MarketcapUnit = Str(<<"T">>) <=> AtLeastPow10(raw, 12)
                 /\ row.MarketcapUnit = Str(<<"B">>)
                       <=> (AtLeastPow10(raw, 9) /\ ~AtLeastPow10(raw, 12))
                 /\ row.MarketcapUnit = Str(<<"M">>)
                       <=> (AtLeastPow10(raw, 6) /\ ~AtLeastPow10(raw, 9))
                 /\ row.MarketcapUnit = EMPTY <=> ~AtLeastPow10(raw, 6)

\* a cap of exactly 10^12 is formatted as 1.00 T
TrillionReached ==
    /\ Merged
    /\ RowRecords = <<CapFund(Str(<<"1">> \o Repeat("0", 12)))>>
    /\ final_data[1].MarketcapValue = Str(<<"1", ".", "0", "0">>)
    /\ final_data[1].MarketcapUnit = Str(<<"T">>)

====
